---- MODULE Spec2Model ----
(***************************************************************************)
(* Gemini Lens: the App component (src/App.tsx and its earlier variant     *)
(* src/unnamed/part_000) as a state machine.  The variables are the        *)
(* component's useState cells, the asynchronous work it has started        *)
(* (the startup probe, key-selection dialogs, FileReader loads, calls of   *)
(* generateContent) and the clock.  One action per handler; a handler      *)
(* that awaits is split at the await into the part that runs in the        *)
(* event and the part that runs at settlement.  Handlers read the state    *)
(* of the last committed render; a control is usable only while the JSX    *)
(* that renders it is mounted and enabled.                                 *)
(***************************************************************************)
EXTENDS Integers, Sequences, FiniteSets, TLC

VARIABLES
  variant,            \* which of the two App sources runs
  isLoggedIn, image, originalMimeType, editedImage, isProcessing,
  expandedCategoryId, selectedSubPreset, customPrompt, history, error,
  probe,              \* position of the startup probe
  logins,             \* handleLogin calls waiting on openSelectKey()
  readers,            \* FileReader loads in progress
  requests,           \* generateContent calls in progress, with the caller's locals
  now,                \* Date.now()
  fuel,               \* user events still to come
  last                \* the handler that ran last, with its input

vars == <<variant, isLoggedIn, image, originalMimeType, editedImage,
          isProcessing, expandedCategoryId, selectedSubPreset, customPrompt,
          history, error, probe, logins, readers, requests, now, fuel, last>>

-----------------------------------------------------------------------------
(* Bounds of the exploration: user events per run, clock values *)

MaxEvents == 5
MaxNow == 1
MaxHistoryEvents == 12

(* Program constants *)

HistoryCap == 10

-----------------------------------------------------------------------------
(* Values.  null is the empty sequence and a present value x is <<x>>; a   *)
(* data URL "data:<mime>;base64,<payload>" is the pair of what stands      *)
(* before and after its comma.                                             *)

NULL == <<>>

Some(x) == <<x>>

DataUrl(mime, payload) == <<mime, payload>>

SplitComma1(url) == url[2]

Min(a, b) == IF a < b THEN a ELSE b

Slice(s, n) == SubSeq(s, 1, Min(Len(s), n))

RemoveAt(s, i) == SubSeq(s, 1, i - 1) \o SubSeq(s, i + 1, Len(s))

Variants == {"App", "part_000"}


(* The files the user may pick: file.type and the base64 of the content. *)
Files ==
  { [type |-> "image/png",  data |-> "QUFB"],
    [type |-> "image/jpeg", data |-> "QkJC"] }

(* The catalog, cut to its first category and one sub-preset of it. *)
EDITING_PRESETS ==
  << [id |-> "restoration", label |-> "Restoration",
      subPresets |-> << [id |-> "denoise", label |-> "Remove Noise",
                         prompt |-> "Remove digital noise and grain while preserving important textures."] >>] >>

Categories == { EDITING_PRESETS[i] : i \in DOMAIN EDITING_PRESETS }

SubPresetsOf(category) ==
  { category.subPresets[i] : i \in DOMAIN category.subPresets }

(* What the user may type into the free-text field. *)
TypedTexts == {"", "Make the background a mountain range"}

DefaultPrompt == "Enhance this image."

(* The texts of setError, per source. *)
NoImageMessage(v) ==
  IF v = "App"
  THEN "The AI finished but didn't return an image. It might be due to safety filters or an complex prompt."
  ELSE "AI could not process this specific edit. Try adjusting your instruction."

ReauthMessage(v) ==
  IF v = "App"
  THEN "Account connection expired. Please reconnect your Google Project."
  ELSE "Session expired or API key invalid. Please re-authenticate."

FallbackMessage(v) ==
  IF v = "App"
  THEN "Failed to edit image. Ensure your Google Cloud Project has billing enabled for credits."
  ELSE "AI Service busy or credit limit reached. Please try again in a moment."

-----------------------------------------------------------------------------
(* What the remote call may settle with *)

(* A thrown value: err.message is absent, or a text, given as the sequence *)
(* of its fragments.                                                       *)
EntityNotFound == "Requested entity was not found"

ApiKeyMark == "API_KEY"

Thrown(text) == [message |-> Some(text)]

ThrownNoMessage == [message |-> NULL]

ErrorTexts ==
  { <<"Network request failed">>,
    <<"404 ", EntityNotFound, ".">>,
    <<ApiKeyMark, "_INVALID">>,
    <<"RESOURCE_EXHAUSTED: You exceeded your current ", "quota">>,
    <<"quota", " exceeded; ", EntityNotFound>>,
    <<"billing", " required for ", ApiKeyMark>> }

ThrownValues == { Thrown(t) : t \in ErrorTexts } \cup { ThrownNoMessage }

(* String.prototype.includes on a text given by its fragments. *)
Includes(text, marker) == \E i \in DOMAIN text : text[i] = marker

(* err.message?.includes(marker): undefined, hence falsy, without a message. *)
MessageIncludes(err, marker) ==
  /\ err.message # NULL
  /\ Includes(err.message[1], marker)

(* A response: candidates?.[0]?.content?.parts is absent or a list of parts; *)
(* a part has inlineData (its base64 data) or not.                           *)
TextPart == [inlineData |-> NULL]

ImagePart(data) == [inlineData |-> Some(data)]

NoPartsResponse == [parts |-> NULL]

PartsResponse(ps) == [parts |-> Some(ps)]

Responses ==
  { NoPartsResponse,
    PartsResponse(<<>>),
    PartsResponse(<<TextPart>>),
    PartsResponse(<<ImagePart("UE5H")>>),
    PartsResponse(<<TextPart, ImagePart("UE5H"), ImagePart("SlBH")>>) }

-----------------------------------------------------------------------------
(* The pure parts of the handlers *)

(* PromptText never using the selected sub-preset. *)
PromptTextIgnoresPreset(custom, selected) ==
  IF custom # "" THEN custom ELSE DefaultPrompt

(* customPrompt || (selectedSubPreset ? selectedSubPreset.prompt : default) *)
PromptText(custom, selected) ==
  IF custom # "" THEN custom
  ELSE IF selected # NULL THEN selected[1].prompt
  ELSE DefaultPrompt

(* ScanParts without the break: the last part with inlineData wins. *)
RECURSIVE ScanPartsNoBreak(_, _)
ScanPartsNoBreak(parts, i) ==
  IF i > Len(parts) THEN 0
  ELSE LET later == ScanPartsNoBreak(parts, i + 1)
       IN IF later # 0 THEN later
          ELSE IF parts[i].inlineData # NULL THEN i ELSE 0

(* The for loop over the parts: the index of the part it breaks at, 0 if it *)
(* runs to the end.                                                         *)
RECURSIVE ScanParts(_, _)
ScanParts(parts, i) ==
  IF i > Len(parts) THEN 0
  ELSE IF parts[i].inlineData # NULL THEN i
  ELSE ScanParts(parts, i + 1)

FoundPart(resp) ==
  IF resp.parts = NULL THEN 0 ELSE ScanParts(resp.parts[1], 1)

(* `data:image/png;base64,${part.inlineData.data}` *)
NewImage(part) == DataUrl("image/png", part.inlineData[1])

(* HistoryItem with the new image stored as the original too. *)
HistoryItemOriginalIsEdited(req, newImage, clock) ==
  [id |-> ToString(clock), original |-> newImage, edited |-> newImage,
   prompt |-> req.promptText, timestamp |-> clock]

(* The item of setHistory, from the locals of the call and the clock. *)
HistoryItem(req, newImage, clock) ==
  [id |-> ToString(clock), original |-> req.image, edited |-> newImage,
   prompt |-> req.promptText, timestamp |-> clock]

(* PushHistory without the slice. *)
PushHistoryUncut(prev, item) == <<item>> \o prev

(* prev => [item, ...prev].slice(0, 10) *)
PushHistory(prev, item) == Slice(<<item>> \o prev, HistoryCap)

(* IsCredentialError looking for "API_KEY" only. *)
IsCredentialErrorKeyOnly(v, err) == MessageIncludes(err, ApiKeyMark)

(* IsCredentialError taking every error with a message for a credential error. *)
IsCredentialErrorAny(v, err) == err.message # NULL

(* The condition of the catch block's if. *)
IsCredentialError(v, err) ==
  \/ MessageIncludes(err, EntityNotFound)
  \/ v = "App" /\ MessageIncludes(err, ApiKeyMark)

(* EditDisabled without isProcessing. *)
EditDisabledNoImageOnly == image = NULL

(* disabled={!image || isProcessing} of the EDIT IMAGE button *)
EditDisabled == image = NULL \/ isProcessing

(* fileInputRef.current: the <input type="file"> is rendered in the        *)
(* !image branch of the workspace only, so the ref is null once an image   *)
(* is shown, and on the login screen.                                      *)
FileInputMounted == isLoggedIn /\ image = NULL

NoArg == [req |-> NULL, resp |-> NULL, err |-> NULL]

Ran(op) == [op |-> op] @@ NoArg

(* One user event (a click, a change) is spent.  Events are dispatched    *)
(* once the mount effect has run.                                          *)
UserEvent == probe # "start" /\ fuel > 0 /\ fuel' = fuel - 1

-----------------------------------------------------------------------------
(* The state after the first render *)

Mounted ==
  /\ variant \in Variants
  /\ isLoggedIn = FALSE
  /\ image = NULL
  /\ originalMimeType = "image/png"
  /\ editedImage = NULL
  /\ isProcessing = FALSE
  /\ expandedCategoryId = NULL
  /\ selectedSubPreset = NULL
  /\ customPrompt = ""
  /\ history = <<>>
  /\ error = NULL
  /\ probe = "start"
  /\ logins = 0
  /\ readers = <<>>
  /\ requests = <<>>
  /\ now = 0
  /\ last = Ran("mount")

Init == Mounted /\ fuel = MaxEvents

-----------------------------------------------------------------------------
(* The startup probe: the effect of useEffect(..., []).  process.env and   *)
(* window.aistudio are read where the code reads them.                     *)

checkExistingConnection ==
  /\ probe = "start"
  /\ \E apiKey \in BOOLEAN, aistudio \in BOOLEAN :
       IF apiKey
       THEN /\ isLoggedIn' = TRUE
            /\ probe' = "done"
            /\ last' = Ran("checkExistingConnection:API_KEY")
       ELSE /\ probe' = IF aistudio THEN "awaiting" ELSE "done"
            /\ last' = Ran(IF aistudio THEN "checkExistingConnection:aistudio"
                                        ELSE "checkExistingConnection:none")
            /\ UNCHANGED isLoggedIn
  /\ UNCHANGED <<variant, image, originalMimeType, editedImage, isProcessing,
                 expandedCategoryId, selectedSubPreset, customPrompt, history,
                 error, logins, readers, requests, now, fuel>>

(* HasSelectedApiKeySettles without the test of hasKey. *)
HasSelectedApiKeySettlesAlways ==
  /\ probe = "awaiting"
  /\ \E outcome \in {"true", "false", "rejected"} :
       last' = Ran("hasSelectedApiKey:" \o outcome)
  /\ isLoggedIn' = TRUE
  /\ probe' = "done"
  /\ UNCHANGED <<variant, image, originalMimeType, editedImage, isProcessing,
                 expandedCategoryId, selectedSubPreset, customPrompt, history,
                 error, logins, readers, requests, now, fuel>>

(* hasSelectedApiKey() settles: true, false, or a rejection (caught in     *)
(* App.tsx, unhandled in part_000: no state changes either way).           *)
HasSelectedApiKeySettles ==
  /\ probe = "awaiting"
  /\ \E outcome \in {"true", "false", "rejected"} :
       /\ isLoggedIn' = IF outcome = "true" THEN TRUE ELSE isLoggedIn
       /\ last' = Ran("hasSelectedApiKey:" \o outcome)
  /\ probe' = "done"
  /\ UNCHANGED <<variant, image, originalMimeType, editedImage, isProcessing,
                 expandedCategoryId, selectedSubPreset, customPrompt, history,
                 error, logins, readers, requests, now, fuel>>

-----------------------------------------------------------------------------
(* The login screen (rendered while !isLoggedIn) *)

(* handleLogin up to its await.  App.tsx clears the error first.  With the *)
(* bridge it waits for openSelectKey(); without it, or when the call       *)
(* throws at once, it sets isLoggedIn in the same event.                   *)
handleLogin ==
  /\ ~isLoggedIn
  /\ UserEvent
  /\ error' = IF variant = "App" THEN NULL ELSE error
  /\ \/ /\ logins' = logins + 1
        /\ last' = Ran("handleLogin:aistudio")
        /\ UNCHANGED isLoggedIn
     \/ /\ isLoggedIn' = TRUE
        /\ last' = Ran("handleLogin:direct")
        /\ UNCHANGED logins
  /\ UNCHANGED <<variant, image, originalMimeType, editedImage, isProcessing,
                 expandedCategoryId, selectedSubPreset, customPrompt, history,
                 probe, readers, requests, now>>

(* OpenSelectKeySettles with a catch block that only logs. *)
OpenSelectKeySettlesOnResolve ==
  /\ logins > 0
  /\ logins' = logins - 1
  /\ \E outcome \in {"resolved", "rejected"} :
       /\ last' = Ran("openSelectKey:" \o outcome)
       /\ isLoggedIn' = IF outcome = "resolved" THEN TRUE ELSE isLoggedIn
  /\ UNCHANGED <<variant, image, originalMimeType, editedImage, isProcessing,
                 expandedCategoryId, selectedSubPreset, customPrompt, history,
                 error, probe, readers, requests, now, fuel>>

(* openSelectKey() settles: after the await and in the catch alike,        *)
(* setIsLoggedIn(true).                                                    *)
OpenSelectKeySettles ==
  /\ logins > 0
  /\ logins' = logins - 1
  /\ \E outcome \in {"resolved", "rejected"} :
       last' = Ran("openSelectKey:" \o outcome)
  /\ isLoggedIn' = TRUE
  /\ UNCHANGED <<variant, image, originalMimeType, editedImage, isProcessing,
                 expandedCategoryId, selectedSubPreset, customPrompt, history,
                 error, probe, readers, requests, now, fuel>>

-----------------------------------------------------------------------------
(* The workspace (rendered while isLoggedIn) *)

(* The category button: expandedCategoryId === id ? null : id *)
CategoryClick ==
  /\ isLoggedIn
  /\ UserEvent
  /\ \E category \in Categories :
       expandedCategoryId' =
         IF expandedCategoryId = Some(category.id) THEN NULL ELSE Some(category.id)
  /\ last' = Ran("CategoryClick")
  /\ UNCHANGED <<variant, isLoggedIn, image, originalMimeType, editedImage,
                 isProcessing, selectedSubPreset, customPrompt, history, error,
                 probe, logins, readers, requests, now>>

(* SubPresetClick without setCustomPrompt(''). *)
SubPresetClickKeepsText ==
  /\ isLoggedIn
  /\ UserEvent
  /\ \E category \in Categories :
       /\ expandedCategoryId = Some(category.id)
       /\ \E sub \in SubPresetsOf(category) : selectedSubPreset' = Some(sub)
  /\ last' = Ran("SubPresetClick")
  /\ UNCHANGED <<variant, isLoggedIn, image, originalMimeType, editedImage,
                 isProcessing, expandedCategoryId, customPrompt, history, error,
                 probe, logins, readers, requests, now>>

(* A sub-preset button, rendered under the expanded category only. *)
SubPresetClick ==
  /\ isLoggedIn
  /\ UserEvent
  /\ \E category \in Categories :
       /\ expandedCategoryId = Some(category.id)
       /\ \E sub \in SubPresetsOf(category) :
            /\ selectedSubPreset' = Some(sub)
            /\ customPrompt' = ""
  /\ last' = Ran("SubPresetClick")
  /\ UNCHANGED <<variant, isLoggedIn, image, originalMimeType, editedImage,
                 isProcessing, expandedCategoryId, history, error, probe, logins,
                 readers, requests, now>>

(* onChange of the textarea *)
CustomPromptChange ==
  /\ isLoggedIn
  /\ UserEvent
  /\ \E text \in TypedTexts :
       /\ customPrompt' = text
       /\ selectedSubPreset' = NULL
  /\ last' = Ran("CustomPromptChange")
  /\ UNCHANGED <<variant, isLoggedIn, image, originalMimeType, editedImage,
                 isProcessing, expandedCategoryId, history, error, probe, logins,
                 readers, requests, now>>

(* handleImageUpload: the change event of the file input, with a file      *)
(* chosen.  It sets the media type and starts a FileReader.                *)
handleImageUpload ==
  /\ FileInputMounted
  /\ UserEvent
  /\ \E file \in Files :
       /\ originalMimeType' = file.type
       /\ readers' = Append(readers, file)
  /\ last' = Ran("handleImageUpload")
  /\ UNCHANGED <<variant, isLoggedIn, image, editedImage, isProcessing,
                 expandedCategoryId, selectedSubPreset, customPrompt, history,
                 error, probe, logins, requests, now>>

(* reader.onloadend: reader.result is the data URL, or null when the read  *)
(* failed.                                                                 *)
ReaderLoadEnd ==
  /\ \E i \in DOMAIN readers :
       /\ \/ /\ image' = DataUrl(readers[i].type, readers[i].data)
             /\ last' = Ran("onloadend:result")
          \/ /\ image' = NULL
             /\ last' = Ran("onloadend:null")
       /\ readers' = RemoveAt(readers, i)
  /\ editedImage' = NULL
  /\ error' = NULL
  /\ UNCHANGED <<variant, isLoggedIn, originalMimeType, isProcessing,
                 expandedCategoryId, selectedSubPreset, customPrompt, history,
                 probe, logins, requests, now, fuel>>

(* The REPLACE button, rendered in the image branch: it calls              *)
(* fileInputRef.current?.click() while the input is not mounted.           *)
ReplaceClick ==
  /\ isLoggedIn
  /\ image # NULL
  /\ UserEvent
  /\ ~FileInputMounted
  /\ last' = Ran("ReplaceClick")
  /\ UNCHANGED <<variant, isLoggedIn, image, originalMimeType, editedImage,
                 isProcessing, expandedCategoryId, selectedSubPreset,
                 customPrompt, history, error, probe, logins, readers, requests,
                 now>>

(* The CLOSE button of the error banner *)
CloseError ==
  /\ isLoggedIn
  /\ error # NULL
  /\ UserEvent
  /\ error' = NULL
  /\ last' = Ran("CloseError")
  /\ UNCHANGED <<variant, isLoggedIn, image, originalMimeType, editedImage,
                 isProcessing, expandedCategoryId, selectedSubPreset,
                 customPrompt, history, probe, logins, readers, requests, now>>

(* RestoreClick taking the restored item out of the history. *)
RestoreClickRemoves ==
  /\ isLoggedIn
  /\ UserEvent
  /\ \E i \in DOMAIN history :
       /\ editedImage' = history[i].edited
       /\ history' = RemoveAt(history, i)
  /\ last' = Ran("RestoreClick")
  /\ UNCHANGED <<variant, isLoggedIn, image, originalMimeType, isProcessing,
                 expandedCategoryId, selectedSubPreset, customPrompt, error,
                 probe, logins, readers, requests, now>>

(* The REVERT / RESTORE button of a history item *)
RestoreClick ==
  /\ isLoggedIn
  /\ UserEvent
  /\ \E i \in DOMAIN history : editedImage' = history[i].edited
  /\ last' = Ran("RestoreClick")
  /\ UNCHANGED <<variant, isLoggedIn, image, originalMimeType, isProcessing,
                 expandedCategoryId, selectedSubPreset, customPrompt, history,
                 error, probe, logins, readers, requests, now>>

-----------------------------------------------------------------------------
(* The edit workflow *)

(* processImage without its first line. *)
processImageUnguarded ==
  LET req == [image |-> image,
              data |-> IF image = NULL THEN "" ELSE SplitComma1(image),
              mimeType |-> originalMimeType,
              promptText |-> PromptText(customPrompt, selectedSubPreset)]
  IN /\ error' = NULL
     /\ isProcessing' = TRUE
     /\ requests' = Append(requests, req)
     /\ last' = [Ran(IF image = NULL THEN "processImage:return"
                                     ELSE "processImage:request")
                   EXCEPT !.req = Some(req)]
     /\ UNCHANGED <<variant, isLoggedIn, image, originalMimeType, editedImage,
                    expandedCategoryId, selectedSubPreset, customPrompt,
                    history, probe, logins, readers, now>>

(* processImage without setError(null). *)
processImageKeepsError ==
  IF image = NULL
  THEN /\ last' = Ran("processImage:return")
       /\ UNCHANGED <<variant, isLoggedIn, image, originalMimeType, editedImage,
                      isProcessing, expandedCategoryId, selectedSubPreset,
                      customPrompt, history, error, probe, logins, readers,
                      requests, now>>
  ELSE LET req == [image |-> image,
                   data |-> SplitComma1(image),
                   mimeType |-> originalMimeType,
                   promptText |-> PromptText(customPrompt, selectedSubPreset)]
       IN /\ isProcessing' = TRUE
          /\ requests' = Append(requests, req)
          /\ last' = [Ran("processImage:request") EXCEPT !.req = Some(req)]
          /\ UNCHANGED <<variant, isLoggedIn, image, originalMimeType,
                         editedImage, expandedCategoryId, selectedSubPreset,
                         customPrompt, history, error, probe, logins, readers,
                         now>>

(* processImage up to its await: the early return, or the two setters and  *)
(* the call of generateContent with the image, the media type and the      *)
(* prompt as the closure holds them.                                       *)
processImage ==
  IF image = NULL
  THEN /\ last' = Ran("processImage:return")
       /\ UNCHANGED <<variant, isLoggedIn, image, originalMimeType, editedImage,
                      isProcessing, expandedCategoryId, selectedSubPreset,
                      customPrompt, history, error, probe, logins, readers,
                      requests, now>>
  ELSE LET req == [image |-> image,
                   data |-> SplitComma1(image),
                   mimeType |-> originalMimeType,
                   promptText |-> PromptText(customPrompt, selectedSubPreset)]
       IN /\ error' = NULL
          /\ isProcessing' = TRUE
          /\ requests' = Append(requests, req)
          /\ last' = [Ran("processImage:request") EXCEPT !.req = Some(req)]
          /\ UNCHANGED <<variant, isLoggedIn, image, originalMimeType,
                         editedImage, expandedCategoryId, selectedSubPreset,
                         customPrompt, history, probe, logins, readers, now>>

(* EditImageClick with the button rendered on the login screen too. *)
EditImageClickNoGate ==
  /\ ~EditDisabled
  /\ UserEvent
  /\ processImage

(* The EDIT IMAGE button *)
EditImageClick ==
  /\ isLoggedIn
  /\ ~EditDisabled
  /\ UserEvent
  /\ processImage

(* processImage called with the button's disabled attribute out of the way *)
ProcessImageCall ==
  /\ UserEvent
  /\ processImage

(* AfterAwait with the result cleared when no image came back. *)
AfterAwaitClearsResult(req, resp) ==
  LET found == FoundPart(resp)
  IN IF found # 0
     THEN LET newImage == NewImage(resp.parts[1][found])
          IN /\ editedImage' = newImage
             /\ history' = PushHistory(history, HistoryItem(req, newImage, now))
             /\ UNCHANGED error
     ELSE /\ error' = Some(NoImageMessage(variant))
          /\ editedImage' = NULL
          /\ UNCHANGED history

(* The code after the await: the scan of the parts and what it sets. *)
AfterAwait(req, resp) ==
  LET found == FoundPart(resp)
  IN IF found # 0
     THEN LET newImage == NewImage(resp.parts[1][found])
          IN /\ editedImage' = newImage
             /\ history' = PushHistory(history, HistoryItem(req, newImage, now))
             /\ UNCHANGED error
     ELSE /\ error' = Some(NoImageMessage(variant))
          /\ UNCHANGED <<editedImage, history>>

(* CaughtMessage with the two texts swapped. *)
CaughtMessageSwapped(v, err) ==
  IF IsCredentialError(v, err) THEN FallbackMessage(v) ELSE ReauthMessage(v)

(* The message of the catch block. *)
CaughtMessage(v, err) ==
  IF IsCredentialError(v, err) THEN ReauthMessage(v) ELSE FallbackMessage(v)

(* Catch with setIsLoggedIn(false) in both branches. *)
CatchRevokesAlways(err) ==
  /\ error' = Some(CaughtMessage(variant, err))
  /\ isLoggedIn' = FALSE

(* The catch block. *)
Catch(err) ==
  /\ error' = Some(CaughtMessage(variant, err))
  /\ isLoggedIn' = IF IsCredentialError(variant, err) THEN FALSE ELSE isLoggedIn

(* No finally block: isProcessing is left as it is. *)
FinallyMissing == UNCHANGED isProcessing

(* The finally block. *)
Finally == isProcessing' = FALSE

(* generateContent resolves. *)
GenerateContentResolves ==
  \E i \in DOMAIN requests : \E resp \in Responses :
    /\ AfterAwait(requests[i], resp)
    /\ Finally
    /\ requests' = RemoveAt(requests, i)
    /\ last' = [Ran("generateContent:resolved") EXCEPT
                  !.req = Some(requests[i]), !.resp = Some(resp)]
    /\ UNCHANGED <<variant, isLoggedIn, image, originalMimeType,
                   expandedCategoryId, selectedSubPreset, customPrompt, probe,
                   logins, readers, now, fuel>>

(* generateContent, or anything else in the try block, throws. *)
GenerateContentThrows ==
  \E i \in DOMAIN requests : \E err \in ThrownValues :
    /\ Catch(err)
    /\ Finally
    /\ requests' = RemoveAt(requests, i)
    /\ last' = [Ran("generateContent:thrown") EXCEPT
                  !.req = Some(requests[i]), !.err = Some(err)]
    /\ UNCHANGED <<variant, image, originalMimeType, editedImage,
                   expandedCategoryId, selectedSubPreset, customPrompt, history,
                   probe, logins, readers, now, fuel>>

(* The clock advances. *)
Tick ==
  /\ now < MaxNow
  /\ now' = now + 1
  /\ UNCHANGED <<variant, isLoggedIn, image, originalMimeType, editedImage,
                 isProcessing, expandedCategoryId, selectedSubPreset,
                 customPrompt, history, error, probe, logins, readers, requests,
                 fuel, last>>

-----------------------------------------------------------------------------
(* Specifications *)

Next ==
  \/ checkExistingConnection
  \/ HasSelectedApiKeySettles
  \/ handleLogin
  \/ OpenSelectKeySettles
  \/ CategoryClick
  \/ SubPresetClick
  \/ CustomPromptChange
  \/ handleImageUpload
  \/ ReaderLoadEnd
  \/ ReplaceClick
  \/ CloseError
  \/ RestoreClick
  \/ EditImageClick
  \/ GenerateContentResolves
  \/ GenerateContentThrows
  \/ Tick

Spec == Init /\ [][Next]_vars

(* Long sessions: uploads, submissions, settlements and restores only,    *)
(* with enough user events for the history to fill up and overflow.        *)
InitHistory == Mounted /\ fuel = MaxHistoryEvents

(* The user picks a file while no other file is being read. *)
UploadAlone == readers = <<>> /\ handleImageUpload

NextHistory ==
  \/ checkExistingConnection
  \/ HasSelectedApiKeySettles
  \/ UploadAlone
  \/ ReaderLoadEnd
  \/ RestoreClick
  \/ EditImageClick
  \/ GenerateContentResolves
  \/ GenerateContentThrows
  \/ Tick

SpecHistory == InitHistory /\ [][NextHistory]_vars

(* processImage may also be called while its button is disabled. *)
NextDirect == Next \/ ProcessImageCall

SpecDirect == Init /\ [][NextDirect]_vars

(* Every issued request settles. *)
FairSpec ==
  Spec /\ WF_vars(GenerateContentResolves \/ GenerateContentThrows)

-----------------------------------------------------------------------------
(* What the properties below say about a settlement, stated on the         *)
(* response or the thrown value itself.                                    *)

NoInlinePart(resp) ==
  \/ resp.parts = NULL
  \/ \A k \in DOMAIN resp.parts[1] : resp.parts[1][k].inlineData = NULL

HasEntityMarker(err) == MessageIncludes(err, EntityNotFound)

HasCredentialMarker(v, err) ==
  \/ HasEntityMarker(err)
  \/ v = "App" /\ MessageIncludes(err, ApiKeyMark)

HasBillingMarker(err) ==
  MessageIncludes(err, "quota") \/ MessageIncludes(err, "billing")

Resolved == last.op = "generateContent:resolved"

ThrewLast == last.op = "generateContent:thrown"

(* The step is a settlement: a request has left the list. *)
ResolvedStep == requests' # requests /\ last'.op = "generateContent:resolved"

ThrownStep == requests' # requests /\ last'.op = "generateContent:thrown"

-----------------------------------------------------------------------------
(* C1: the history never holds more than 10 items, and right after a       *)
(* successful edit settles, the item made from that request and that       *)
(* response is the first one.  (SpecHistory)                               *)
C1_HistoryBounded ==
  /\ Len(history) <= HistoryCap
  /\ (Resolved /\ ~NoInlinePart(last.resp[1]))
       => /\ history # <<>>
          /\ history[1].original = last.req[1].image
          /\ history[1].prompt = last.req[1].promptText
          /\ history[1].edited = editedImage

(* A successful edit has just settled into a full history. *)
C1_Witness ==
  /\ Resolved
  /\ ~NoInlinePart(last.resp[1])
  /\ Len(history) = HistoryCap
  /\ fuel = 0

(* C2: never both a selected sub-preset and a non-empty free text; a       *)
(* sub-preset click leaves the text empty, a change of the text leaves no  *)
(* sub-preset selected.                                                    *)
C2_OneInstructionSource ==
  /\ ~(selectedSubPreset # NULL /\ customPrompt # "")
  /\ last.op = "SubPresetClick" => (selectedSubPreset # NULL /\ customPrompt = "")
  /\ last.op = "CustomPromptChange" => selectedSubPreset = NULL

(* The user typed a text, then opened the category and picked the sub-preset. *)
C2_Witness ==
  /\ last.op = "SubPresetClick"
  /\ selectedSubPreset # NULL
  /\ customPrompt = ""
  /\ fuel <= MaxEvents - 3

(* C3: a call of processImage with no image changes neither isProcessing   *)
(* nor error and starts no request.  (SpecDirect)                          *)
C3_NoImageNoEffect ==
  [][(/\ image = NULL
      /\ fuel' < fuel
      /\ last'.op \in {"processImage:return", "processImage:request"})
     => (/\ isProcessing' = isProcessing
         /\ error' = error
         /\ requests' = requests)]_vars

(* processImage returned at once while a request was in flight. *)
C3_Witness ==
  /\ last.op = "processImage:return"
  /\ image = NULL
  /\ isProcessing

(* C4: a settlement with a response that has no inline image part leaves   *)
(* the result and the history as they were and sets the no-image message.  *)
C4_NoImageKeepsResult ==
  [][(ResolvedStep /\ NoInlinePart(last'.resp[1]))
     => (/\ editedImage' = editedImage
         /\ history' = history
         /\ error' = Some(NoImageMessage(variant)))]_vars

(* Such a settlement, with a result and a history to keep. *)
C4_Witness ==
  /\ Resolved
  /\ NoInlinePart(last.resp[1])
  /\ editedImage # NULL
  /\ history # <<>>
  /\ error = Some(NoImageMessage(variant))

(* C5: after a request threw an error whose text contains "Requested       *)
(* entity was not found", isLoggedIn is false and the error is the         *)
(* re-authentication message.                                              *)
C5_EntityNotFoundRevokes ==
  (ThrewLast /\ HasEntityMarker(last.err[1]))
    => (~isLoggedIn /\ error = Some(ReauthMessage(variant)))

C5_Witness ==
  /\ ThrewLast
  /\ HasEntityMarker(last.err[1])
  /\ ~HasBillingMarker(last.err[1])
  /\ ~isLoggedIn

(* C6 as stated: after a request threw an error whose text contains a     *)
(* billing or quota marker, isLoggedIn is true, whatever else the text     *)
(* contains.                                                               *)
C6_AnyBillingTextKeepsLogin ==
  (ThrewLast /\ HasBillingMarker(last.err[1])) => isLoggedIn

(* C6, amended: after a request threw an error whose text contains a       *)
(* billing or quota marker and no credential marker, isLoggedIn is true;   *)
(* with a credential marker in the same text it is false.                  *)
C6_BillingTextKeepsLogin ==
  (ThrewLast /\ HasBillingMarker(last.err[1]))
    => (isLoggedIn <=> ~HasCredentialMarker(variant, last.err[1]))

C6_Witness ==
  /\ ThrewLast
  /\ HasBillingMarker(last.err[1])
  /\ ~HasCredentialMarker(variant, last.err[1])
  /\ isLoggedIn

C8_OnlyCredentialErrorRevokes ==
  [][/\ (isLoggedIn /\ ~isLoggedIn')
          => (ThrownStep /\ HasCredentialMarker(variant, last'.err[1]))
     /\ (ResolvedStep \/ (ThrownStep /\ ~HasCredentialMarker(variant, last'.err[1])))
          => (isLoggedIn /\ isLoggedIn')]_vars

(* In App.tsx, an error with "API_KEY" and without the entity marker has   *)
(* revoked the login.                                                      *)
C8_Witness ==
  /\ ThrewLast
  /\ MessageIncludes(last.err[1], ApiKeyMark)
  /\ ~HasEntityMarker(last.err[1])
  /\ ~isLoggedIn

(* C9: isProcessing is false after every settlement, and, every request    *)
(* settling at some time, isProcessing always becomes false again.         *)
(* (FairSpec)                                                              *)
C9_ReturnsToIdle ==
  /\ []((Resolved \/ ThrewLast) => ~isProcessing)
  /\ (isProcessing ~> ~isProcessing)

(* A request has thrown and the workflow is idle again. *)
C9_Witness ==
  /\ ThrewLast
  /\ ~isProcessing
  /\ requests = <<>>
  /\ error # NULL

(* C10: at most one request is outstanding, and while one is,              *)
(* isProcessing is true, which disables the EDIT IMAGE button.             *)
C10_OneRequest ==
  /\ Len(requests) <= 1
  /\ requests # <<>> => isProcessing

(* A request is outstanding while the workspace is shown and the user may  *)
(* still act.                                                              *)
C10_Witness ==
  /\ Len(requests) = 1
  /\ isLoggedIn
  /\ image # NULL
  /\ fuel > 0

-----------------------------------------------------------------------------
(* The handlers of the workspace's controls, by the name they leave in last. *)
WorkspaceOps ==
  {"CategoryClick", "SubPresetClick", "CustomPromptChange", "handleImageUpload",
   "ReplaceClick", "CloseError", "RestoreClick", "processImage:request",
   "processImage:return"}

(* C11: a request is issued only in a step that starts with isLoggedIn     *)
(* true, and so is every user event on a control of the workspace (the     *)
(* submit button, the file input, the presets, the history); hence no      *)
(* request is outstanding while isLoggedIn is false.                       *)
C11_RequestsOnlyLoggedIn ==
  [][/\ (Len(requests') > Len(requests)) => isLoggedIn
     /\ (fuel' < fuel /\ last'.op \in WorkspaceOps) => isLoggedIn
     /\ (requests' # <<>>) => isLoggedIn']_vars

(* A request has just been issued from the workspace, and is outstanding. *)
C11_Witness ==
  /\ last.op = "processImage:request"
  /\ requests = <<last.req[1]>>
  /\ isLoggedIn
  /\ isProcessing

(* The instruction of the claims: the free text if it is not empty, else   *)
(* the selected sub-preset's, else the default.                            *)
EffectiveInstruction(text, selected) ==
  CASE text # "" -> text
    [] text = "" /\ selected # NULL -> selected[1].prompt
    [] OTHER -> "Enhance this image."

Selections ==
  {NULL} \cup { Some(sub) : sub \in UNION { SubPresetsOf(c) : c \in Categories } }

(* C12: the request issued by a submission carries the effective           *)
(* instruction of the free text and the selection as they are at the       *)
(* click; and so does the prompt computed for any free text and any        *)
(* selection, the two being set together included.                         *)
C12_EffectiveInstruction ==
  /\ last.op = "processImage:request" =>
       /\ last.req[1].promptText = EffectiveInstruction(customPrompt, selectedSubPreset)
       /\ requests # <<>>
       /\ requests[Len(requests)].promptText = last.req[1].promptText
  /\ \A text \in TypedTexts, selected \in Selections :
       PromptText(text, selected) = EffectiveInstruction(text, selected)

(* A request went out with the instruction of the selected sub-preset. *)
C12_Witness ==
  /\ last.op = "processImage:request"
  /\ customPrompt = ""
  /\ selectedSubPreset # NULL
  /\ last.req[1].promptText = selectedSubPreset[1].prompt
  /\ last.req[1].promptText # DefaultPrompt

(* The first part with inline image bytes, in the order of the response. *)
FirstInline(resp) ==
  LET ps == resp.parts[1]
      k == CHOOSE k \in DOMAIN ps :
             /\ ps[k].inlineData # NULL
             /\ \A j \in 1..(k - 1) : ps[j].inlineData = NULL
  IN ps[k].inlineData[1]

InlineCount(resp) ==
  IF resp.parts = NULL THEN 0
  ELSE Cardinality({ k \in DOMAIN resp.parts[1] : resp.parts[1][k].inlineData # NULL })

(* C13: a settlement with a response that has parts with inline image      *)
(* bytes makes the result from the first of them and puts exactly one new  *)
(* item in front of the history, however many such parts there are.        *)
C13_FirstImagePartWins ==
  [][(ResolvedStep /\ ~NoInlinePart(last'.resp[1]))
     => (/\ editedImage' = <<"image/png", FirstInline(last'.resp[1])>>
         /\ history' # <<>>
         /\ history'[1].edited = editedImage'
         /\ Len(history') = Min(Len(history) + 1, HistoryCap)
         /\ \A k \in 2..Len(history') : history'[k] = history[k - 1])]_vars

(* A response with two image parts after a text part has settled. *)
C13_Witness ==
  /\ Resolved
  /\ InlineCount(last.resp[1]) = 2
  /\ editedImage = <<"image/png", "UE5H">>
  /\ Len(history) = 1

(* C14: after a request settled with a response that has an image part B, *)
(* the result is the PNG data URL of B, the first history item has the     *)
(* image and the instruction that went out with the request and the same   *)
(* result, and there is no error.                                          *)
C14_SuccessRecordsRequest ==
  (Resolved /\ ~NoInlinePart(last.resp[1]))
    => /\ editedImage = <<"image/png", FirstInline(last.resp[1])>>
       /\ history # <<>>
       /\ history[1].original = last.req[1].image
       /\ last.req[1].data = history[1].original[2]
       /\ history[1].edited = editedImage
       /\ history[1].prompt = last.req[1].promptText
       /\ error = NULL

(* The scenario: a JPEG is uploaded, "Remove Noise" is selected, the edit  *)
(* is submitted and one image part comes back.                             *)
C14_Witness ==
  /\ Resolved
  /\ InlineCount(last.resp[1]) = 1
  /\ image = <<"image/jpeg", "QkJC">>
  /\ selectedSubPreset # NULL
  /\ history =
       << [id |-> history[1].id, original |-> image,
           edited |-> <<"image/png", "UE5H">>,
           prompt |-> "Remove digital noise and grain while preserving important textures.",
           timestamp |-> history[1].timestamp] >>
  /\ editedImage = <<"image/png", "UE5H">>

(* C15: the startup probe.  With process.env.API_KEY it sets isLoggedIn    *)
(* and is done, the bridge not asked; without it and with the bridge it    *)
(* asks and sets nothing yet; without both it sets nothing and is done.    *)
(* The bridge's answer sets isLoggedIn when it is true, and leaves the     *)
(* flag as it is when it is false or a rejection.                          *)
C15_StartupProbe ==
  [][/\ (probe = "start" /\ probe' # probe) =>
          \/ /\ last'.op = "checkExistingConnection:API_KEY"
             /\ isLoggedIn' /\ probe' = "done"
          \/ /\ last'.op = "checkExistingConnection:aistudio"
             /\ ~isLoggedIn' /\ probe' = "awaiting"
          \/ /\ last'.op = "checkExistingConnection:none"
             /\ ~isLoggedIn' /\ probe' = "done"
     /\ (probe = "awaiting" /\ probe' # probe) =>
          /\ probe' = "done"
          /\ last'.op \in {"hasSelectedApiKey:true", "hasSelectedApiKey:false",
                           "hasSelectedApiKey:rejected"}
          /\ isLoggedIn' = (isLoggedIn \/ last'.op = "hasSelectedApiKey:true")]_vars

(* The bridge's call was rejected and the session is not authenticated. *)
C15_Witness ==
  /\ last.op = "hasSelectedApiKey:rejected"
  /\ probe = "done"
  /\ ~isLoggedIn

(* C16: once handleLogin has run to its end, isLoggedIn is true: without   *)
(* the bridge, after the dialog resolved, and after it was rejected; no    *)
(* credential is looked at on the way.                                     *)
C16_LoginWithoutCredential ==
  last.op \in {"handleLogin:direct", "openSelectKey:resolved", "openSelectKey:rejected"}
    => isLoggedIn

(* The dialog was rejected, and the workspace is shown. *)
C16_Witness ==
  /\ last.op = "openSelectKey:rejected"
  /\ isLoggedIn
  /\ logins = 0

(* C17: while a request is outstanding, a step that is not its settlement *)
(* changes none of image, originalMimeType, editedImage,                   *)
(* selectedSubPreset, customPrompt, error and history.                     *)
C17_OnlySettlementChangesSession ==
  [][(requests # <<>> /\ ~(ResolvedStep \/ ThrownStep))
     => UNCHANGED <<image, originalMimeType, editedImage, selectedSubPreset,
                    customPrompt, error, history>>]_vars

(* C18: the items of the history have pairwise distinct ids. *)
C18_DistinctIds ==
  \A i, j \in DOMAIN history : i # j => history[i].id # history[j].id

(* C19: the history changes only in the settlement of a successful edit. *)
(* That step puts one item in front and keeps the items it had, in their   *)
(* order, but for the last of ten; every other step leaves the history as  *)
(* it is.  (SpecHistory)                                                   *)
C19_HistoryFrame ==
  [][IF ResolvedStep /\ ~NoInlinePart(last'.resp[1])
     THEN /\ Len(history') = Min(Len(history) + 1, HistoryCap)
          /\ history'[1].edited = editedImage'
          /\ history'[1].original = last'.req[1].image
          /\ \A k \in 2..Len(history') : history'[k] = history[k - 1]
     ELSE history' = history]_vars

(* A successful edit has settled on the last of twelve user events into a  *)
(* history of ten items, the oldest of them made after the clock moved.    *)
C19_Witness ==
  /\ Resolved
  /\ ~NoInlinePart(last.resp[1])
  /\ fuel = 0
  /\ Len(history) = HistoryCap
  /\ history[HistoryCap].timestamp = 1

(* C20: a submission leaves no error; after the settlement the error is    *)
(* the one of that settlement: none after an image came back, the no-image *)
(* message after a response without one, the message of the error's class  *)
(* after a throw.                                                          *)
C20_ErrorOfThisRequest ==
  /\ last.op = "processImage:request" => error = NULL
  /\ Resolved =>
       error = IF NoInlinePart(last.resp[1])
               THEN Some(NoImageMessage(variant)) ELSE NULL
  /\ ThrewLast =>
       error = Some(IF HasCredentialMarker(variant, last.err[1])
                    THEN ReauthMessage(variant) ELSE FallbackMessage(variant))

(* An edit has succeeded on the third user event or later, its item is    *)
(* the only one of the history, and no error is shown.                     *)
C20_Witness ==
  /\ Resolved
  /\ ~NoInlinePart(last.resp[1])
  /\ error = NULL
  /\ Len(history) = 1
  /\ fuel <= MaxEvents - 3

(* A FileReader has delivered: one read has left the list. *)
LoadEndStep == readers' # readers /\ last'.op \in {"onloadend:result", "onloadend:null"}

RestoreStep == fuel' < fuel /\ last'.op = "RestoreClick"

(* C21: a result is the output of a request made on the image that is      *)
(* loaded, or a restored one.  A successful settlement belongs to a        *)
(* request made on the image loaded at that moment; a finished load        *)
(* leaves no result; and a result appears or changes only by such a        *)
(* settlement or by a restore.                                             *)
C21_ResultOfLoadedImage ==
  [][/\ (ResolvedStep /\ ~NoInlinePart(last'.resp[1]))
          => last'.req[1].image = image'
     /\ LoadEndStep => editedImage' = NULL
     /\ (editedImage' # editedImage /\ editedImage' # NULL)
          => (RestoreStep \/ (ResolvedStep /\ ~NoInlinePart(last'.resp[1])))]_vars

(* The steps of the credential-selection action: handleLogin without the   *)
(* bridge, and the settlement of its dialog.                               *)
LoginStep ==
  last'.op \in {"handleLogin:direct", "openSelectKey:resolved", "openSelectKey:rejected"}

(* C22: right after a thrown error with a credential marker has set        *)
(* isLoggedIn to false, the flag becomes true again only by a step of the  *)
(* credential-selection action, never by the answer of the startup probe.  *)
C22_RevokedUntilLogin ==
  [][(/\ ThrewLast
      /\ HasCredentialMarker(variant, last.err[1])
      /\ ~isLoggedIn
      /\ isLoggedIn')
     => LoginStep]_vars

====
